---- MODULE Spec2Model ----
(***************************************************************************)
(* Model of src/log.rs: the nginx log facade.                              *)
(*   - check_mask, the debug-mask filter predicate                         *)
(*   - the DebugMask <-> u32 conversions                                   *)
(*   - the logging macros ngx_log_error, ngx_conf_log_error,               *)
(*     ngx_log_debug (both arms), ngx_log_debug_http, ngx_log_debug_mask   *)
(* The host (nginx) is modelled by what it observes: the calls of its two   *)
(* write primitives that one macro invocation makes, with their arguments. *)
(***************************************************************************)
EXTENDS Integers, Sequences, FiniteSets

(* ------------------------------------------------------------------ *)
(* Bounds of the model                                                 *)
(* ------------------------------------------------------------------ *)
\* severity levels passed to the error-level macros are 0..MaxLevel
MaxLevel == 2
\* formatted messages are strings of at most MaxMsgLen characters
MaxMsgLen == 2
\* small u32 inputs 0..MaxValue given to try_from / check_mask
MaxValue == 40

(* ------------------------------------------------------------------ *)
(* Host constants (crate::ffi, generated from nginx's ngx_log.h)       *)
(* ------------------------------------------------------------------ *)
NGX_LOG_DEBUG == 8
NGX_LOG_DEBUG_CORE == 16
NGX_LOG_DEBUG_ALLOC == 32
NGX_LOG_DEBUG_MUTEX == 64
NGX_LOG_DEBUG_EVENT == 128
NGX_LOG_DEBUG_HTTP == 256
NGX_LOG_DEBUG_MAIL == 512
NGX_LOG_DEBUG_STREAM == 1024
\* 0x7ffffff0
NGX_LOG_DEBUG_ALL == 2147483632
NGX_LOG_DEBUG_FIRST == NGX_LOG_DEBUG_CORE
NGX_LOG_DEBUG_LAST == NGX_LOG_DEBUG_STREAM

(* ------------------------------------------------------------------ *)
(* enum DebugMask                                                      *)
(* ------------------------------------------------------------------ *)
DebugMask == {"Core", "Alloc", "Mutex", "Event", "Http", "Mail", "Stream", "All"}

\* the single-category variants (every variant but the All sentinel)
SingleMask == DebugMask \ {"All"}

\* Result<DebugMask, u32>
Ok(m) == [tag |-> "Ok", val |-> m]
Err(e) == [tag |-> "Err", val |-> e]

\* bitwise AND of two non-negative integers (the & of check_mask)
RECURSIVE BitAnd(_, _)
BitAnd(a, b) ==
    IF a = 0 \/ b = 0 THEN 0
    ELSE (a % 2) * (b % 2) + 2 * BitAnd(a \div 2, b \div 2)

\* From<DebugMask> for u32, with Core and Alloc swapped
U32FromSwapped(value) ==
    CASE value = "Core" -> NGX_LOG_DEBUG_ALLOC
      [] value = "Alloc" -> NGX_LOG_DEBUG_CORE
      [] value = "Mutex" -> NGX_LOG_DEBUG_MUTEX
      [] value = "Event" -> NGX_LOG_DEBUG_EVENT
      [] value = "Http" -> NGX_LOG_DEBUG_HTTP
      [] value = "Mail" -> NGX_LOG_DEBUG_MAIL
      [] value = "Stream" -> NGX_LOG_DEBUG_STREAM
      [] value = "All" -> NGX_LOG_DEBUG_ALL

\* From<DebugMask> for u32 whose Stream arm repeats the Mail constant
U32FromStreamAsMail(value) ==
    CASE value = "Core" -> NGX_LOG_DEBUG_CORE
      [] value = "Alloc" -> NGX_LOG_DEBUG_ALLOC
      [] value = "Mutex" -> NGX_LOG_DEBUG_MUTEX
      [] value = "Event" -> NGX_LOG_DEBUG_EVENT
      [] value = "Http" -> NGX_LOG_DEBUG_HTTP
      [] value = "Mail" -> NGX_LOG_DEBUG_MAIL
      [] value = "Stream" -> NGX_LOG_DEBUG_MAIL
      [] value = "All" -> NGX_LOG_DEBUG_ALL

\* impl From<DebugMask> for u32
U32From(value) ==
    CASE value = "Core" -> NGX_LOG_DEBUG_CORE
      [] value = "Alloc" -> NGX_LOG_DEBUG_ALLOC
      [] value = "Mutex" -> NGX_LOG_DEBUG_MUTEX
      [] value = "Event" -> NGX_LOG_DEBUG_EVENT
      [] value = "Http" -> NGX_LOG_DEBUG_HTTP
      [] value = "Mail" -> NGX_LOG_DEBUG_MAIL
      [] value = "Stream" -> NGX_LOG_DEBUG_STREAM
      [] value = "All" -> NGX_LOG_DEBUG_ALL

\* try_from that accepts any value holding a category's bit
TryFromByBit(value) ==
    IF \E m \in SingleMask : BitAnd(value, U32From(m)) # 0
    THEN Ok(CHOOSE m \in SingleMask : BitAnd(value, U32From(m)) # 0)
    ELSE IF value = NGX_LOG_DEBUG_ALL THEN Ok("All") ELSE Err(0)

\* try_from whose Http arm yields Mail
TryFromWrongArm(value) ==
    CASE value = NGX_LOG_DEBUG_CORE -> Ok("Core")
      [] value = NGX_LOG_DEBUG_ALLOC -> Ok("Alloc")
      [] value = NGX_LOG_DEBUG_MUTEX -> Ok("Mutex")
      [] value = NGX_LOG_DEBUG_EVENT -> Ok("Event")
      [] value = NGX_LOG_DEBUG_HTTP -> Ok("Mail")
      [] value = NGX_LOG_DEBUG_MAIL -> Ok("Mail")
      [] value = NGX_LOG_DEBUG_STREAM -> Ok("Stream")
      [] value = NGX_LOG_DEBUG_ALL -> Ok("All")
      [] OTHER -> Err(0)

\* impl TryFrom<u32> for DebugMask: the arms are tried in order, the
\* fall-through arm is Err(0)
TryFrom(value) ==
    CASE value = NGX_LOG_DEBUG_CORE -> Ok("Core")
      [] value = NGX_LOG_DEBUG_ALLOC -> Ok("Alloc")
      [] value = NGX_LOG_DEBUG_MUTEX -> Ok("Mutex")
      [] value = NGX_LOG_DEBUG_EVENT -> Ok("Event")
      [] value = NGX_LOG_DEBUG_HTTP -> Ok("Http")
      [] value = NGX_LOG_DEBUG_MAIL -> Ok("Mail")
      [] value = NGX_LOG_DEBUG_STREAM -> Ok("Stream")
      [] value = NGX_LOG_DEBUG_ALL -> Ok("All")
      [] OTHER -> Err(0)

\* check_mask as an equality test instead of a flag test
CheckMaskEq(mask, log_level) ==
    LET mask_bits == U32From(mask)
    IN  log_level = mask_bits

\* pub fn check_mask(mask: DebugMask, log_level: usize) -> bool
check_mask(mask, log_level) ==
    LET mask_bits == U32From(mask)
    IN  IF BitAnd(log_level, mask_bits) = 0 THEN FALSE ELSE TRUE

(* ------------------------------------------------------------------ *)
(* Host objects reached through raw pointers                           *)
(* ------------------------------------------------------------------ *)
\* the ngx_log_t sinks a caller can hand in
Sinks == {"log_a", "log_b"}
\* ngx_conf_t objects and their embedded log reference, (*cf).log
Confs == {"cf_a", "cf_b"}
ConfLog(cf) == IF cf = "cf_a" THEN "log_a" ELSE "log_b"
\* requests and the log of their connection, (*request.connection()).log
Requests == {"req_a", "req_b"}
RequestLog(request) == IF request = "req_a" THEN "log_a" ELSE "log_b"

\* values of ngx_log_t.log_level: severity thresholds, single debug bits,
\* a debug bit of no category, and all debug bits
LogLevels ==
    (0 .. MaxLevel) \cup
    { NGX_LOG_DEBUG_CORE, NGX_LOG_DEBUG_HTTP, 2048, NGX_LOG_DEBUG_ALL }

\* severity levels a caller passes ($level as ngx_uint_t)
Levels == (0 .. MaxLevel) \cup { NGX_LOG_DEBUG }

\* the Strings format! produces here: the prefixes of "a", e-acute, "a", ...
\* (a character of one byte in UTF-8 and a character of two)
Strings ==
    { [i \in 1 .. n |-> IF i % 2 = 1 THEN "a" ELSE "e_acute"] : n \in 0 .. MaxMsgLen }

\* String::as_bytes that yields one byte per character
AsBytesNarrow(s) == [i \in 1 .. Len(s) |-> IF s[i] = "a" THEN 97 ELSE 233]

\* String::as_bytes: the UTF-8 encoding of the string
RECURSIVE AsBytes(_)
AsBytes(s) ==
    IF s = <<>> THEN <<>>
    ELSE (IF Head(s) = "a" THEN <<97>> ELSE <<195, 169>>) \o AsBytes(Tail(s))

VARIABLES
    log_level,   \* [Sinks -> Nat]: the log_level field of each ngx_log_t
    call,        \* the macro invocation that ran last and its arguments
    writes,      \* the host write primitives that invocation called, in order
    fn,          \* the function that was applied last
    arg_mask,    \* its DebugMask argument
    arg_value,   \* its numeric argument
    ret          \* its result

vars == <<log_level, call, writes, fn, arg_mask, arg_value, ret>>
logvars == <<log_level, call, writes>>
purevars == <<fn, arg_mask, arg_value, ret>>

NoCall == [op |-> "none", level |-> 0, mask |-> "none", target |-> "none", msg |-> <<>>]
NoRet == [tag |-> "none", val |-> 0]

\* one call of a host write primitive with its six arguments
HostWrite(prim, level, target, message) ==
    [prim |-> prim, level |-> level, target |-> target, err |-> 0,
     fmt |-> "%*s", len |-> Len(message), data |-> message]

(* ------------------------------------------------------------------ *)
(* The macro bodies                                                    *)
(* ------------------------------------------------------------------ *)
\* ngx_log_error with the threshold test written <=
NgxLogErrorLe(level, log, s) ==
    /\ IF level <= log_level[log]
       THEN LET message == AsBytes(s)
            IN  writes' = <<HostWrite("ngx_log_error_core", level, log, message)>>
       ELSE writes' = <<>>
    /\ UNCHANGED log_level

\* macro_rules! ngx_log_error
ngx_log_error(level, log, s) ==
    /\ IF level < log_level[log]
       THEN LET message == AsBytes(s)
            IN  writes' = <<HostWrite("ngx_log_error_core", level, log, message)>>
       ELSE writes' = <<>>
    /\ UNCHANGED log_level

\* ngx_conf_log_error that reports to the core log as well
NgxConfLogErrorTwice(level, cf, s) ==
    /\ IF level < log_level[ConfLog(cf)]
       THEN LET message == AsBytes(s)
            IN  writes' = << HostWrite("ngx_log_error_core", level, ConfLog(cf), message),
                            HostWrite("ngx_conf_log_error", level, cf, message) >>
       ELSE writes' = <<>>
    /\ UNCHANGED log_level

\* macro_rules! ngx_conf_log_error
ngx_conf_log_error(level, cf, s) ==
    /\ IF level < log_level[ConfLog(cf)]
       THEN LET message == AsBytes(s)
            IN  writes' = <<HostWrite("ngx_conf_log_error", level, cf, message)>>
       ELSE writes' = <<>>
    /\ UNCHANGED log_level

\* ngx_log_debug, mask arm, that passes the mask bits as the level
NgxLogDebugLevelFromMask(mask, log, s) ==
    /\ IF check_mask(mask, log_level[log])
       THEN LET level == U32From(mask)
                message == AsBytes(s)
            IN  writes' = <<HostWrite("ngx_log_error_core", level, log, message)>>
       ELSE writes' = <<>>
    /\ UNCHANGED log_level

\* macro_rules! ngx_log_debug, arm ( mask: $mask, $log, ... )
ngx_log_debug_mask_arm(mask, log, s) ==
    /\ IF check_mask(mask, log_level[log])
       THEN LET level == NGX_LOG_DEBUG
                message == AsBytes(s)
            IN  writes' = <<HostWrite("ngx_log_error_core", level, log, message)>>
       ELSE writes' = <<>>
    /\ UNCHANGED log_level

\* ngx_log_debug, default arm, with the mask fixed to Core
NgxLogDebugDefaultCore(log, s) == ngx_log_debug_mask_arm("Core", log, s)

\* macro_rules! ngx_log_debug, arm ( $log, ... )
ngx_log_debug_default_arm(log, s) == ngx_log_debug_mask_arm("All", log, s)

\* macro_rules! ngx_log_debug_http
ngx_log_debug_http(request, s) ==
    LET log == RequestLog(request)
    IN  ngx_log_debug_mask_arm("Http", log, s)

\* macro_rules! ngx_log_debug_mask: one arm per single-category variant
ngx_log_debug_mask(mask, log, s) ==
    /\ mask \in SingleMask
    /\ ngx_log_debug_mask_arm(mask, log, s)

(* ------------------------------------------------------------------ *)
(* Callers: one action per entry point                                 *)
(* ------------------------------------------------------------------ *)
Called(op, level, mask, target, s) ==
    [op |-> op, level |-> level, mask |-> mask, target |-> target, msg |-> s]

LogError ==
    \E level \in Levels, log \in Sinks, s \in Strings :
        /\ ngx_log_error(level, log, s)
        /\ call' = Called("ngx_log_error", level, "none", log, s)
        /\ UNCHANGED purevars

ConfLogError ==
    \E level \in Levels, cf \in Confs, s \in Strings :
        /\ ngx_conf_log_error(level, cf, s)
        /\ call' = Called("ngx_conf_log_error", level, "none", cf, s)
        /\ UNCHANGED purevars

LogDebugMaskArm ==
    \E mask \in DebugMask, log \in Sinks, s \in Strings :
        /\ ngx_log_debug_mask_arm(mask, log, s)
        /\ call' = Called("ngx_log_debug(mask:)", NGX_LOG_DEBUG, mask, log, s)
        /\ UNCHANGED purevars

LogDebugDefault ==
    \E log \in Sinks, s \in Strings :
        /\ ngx_log_debug_default_arm(log, s)
        /\ call' = Called("ngx_log_debug", NGX_LOG_DEBUG, "none", log, s)
        /\ UNCHANGED purevars

LogDebugHttp ==
    \E request \in Requests, s \in Strings :
        /\ ngx_log_debug_http(request, s)
        /\ call' = Called("ngx_log_debug_http", NGX_LOG_DEBUG, "none", request, s)
        /\ UNCHANGED purevars

LogDebugMask ==
    \E mask \in SingleMask, log \in Sinks, s \in Strings :
        /\ ngx_log_debug_mask(mask, log, s)
        /\ call' = Called("ngx_log_debug_mask", NGX_LOG_DEBUG, mask, log, s)
        /\ UNCHANGED purevars

Init ==
    /\ log_level \in [Sinks -> LogLevels]
    /\ call = NoCall
    /\ writes = <<>>
    /\ fn = "none"
    /\ arg_mask = "Core"
    /\ arg_value = 0
    /\ ret = NoRet

Next ==
    \/ LogError
    \/ ConfLogError
    \/ LogDebugMaskArm
    \/ LogDebugDefault
    \/ LogDebugHttp
    \/ LogDebugMask

Spec == Init /\ [][Next]_vars

(* ------------------------------------------------------------------ *)
(* The pure functions, applied to inputs drawn at Init                 *)
(* ------------------------------------------------------------------ *)
SingleValues == { U32From(m) : m \in SingleMask }

\* u32 / usize inputs: small values, every variant's value, every union of
\* two categories, a debug bit of no category, all bits but Core's
PureValues ==
    (0 .. MaxValue) \cup SingleValues \cup { NGX_LOG_DEBUG_ALL }
    \cup { p[1] + p[2] : p \in { q \in SingleValues \X SingleValues : q[1] < q[2] } }
    \cup { 2048, NGX_LOG_DEBUG_ALL - NGX_LOG_DEBUG_CORE }

CallCheckMask ==
    /\ fn' = "check_mask"
    /\ ret' = check_mask(arg_mask, arg_value)
    /\ UNCHANGED <<arg_mask, arg_value, logvars>>

CallTryFrom ==
    /\ fn' = "try_from"
    /\ ret' = TryFrom(arg_value)
    /\ UNCHANGED <<arg_mask, arg_value, logvars>>

CallInto ==
    /\ fn' = "into"
    /\ ret' = U32From(arg_mask)
    /\ UNCHANGED <<arg_mask, arg_value, logvars>>

\* DebugMask::try_from(u32::from(mask)): the value into() returned goes back
CallTryFromOfInto ==
    /\ fn = "into"
    /\ fn' = "try_from(into)"
    /\ arg_value' = ret
    /\ ret' = TryFrom(ret)
    /\ UNCHANGED <<arg_mask, logvars>>

InitPure ==
    /\ log_level = [s \in Sinks |-> 0]
    /\ call = NoCall
    /\ writes = <<>>
    /\ fn = "none"
    /\ arg_mask \in DebugMask
    /\ arg_value \in PureValues
    /\ ret = NoRet

NextPure ==
    \/ CallCheckMask
    \/ CallTryFrom
    \/ CallInto
    \/ CallTryFromOfInto

SpecPure == InitPure /\ [][NextPure]_vars

(* ================================================================== *)
(* Properties                                                          *)
(* ================================================================== *)
\* bit i of n, and the flag test stated bit by bit
Bit(n, i) == (n \div (2 ^ i)) % 2
SharesBit(a, b) == \E i \in 0 .. 30 : Bit(a, i) = 1 /\ Bit(b, i) = 1

\* the eight host debug constants
DebugConstants ==
    { NGX_LOG_DEBUG_CORE, NGX_LOG_DEBUG_ALLOC, NGX_LOG_DEBUG_MUTEX, NGX_LOG_DEBUG_EVENT,
      NGX_LOG_DEBUG_HTTP, NGX_LOG_DEBUG_MAIL, NGX_LOG_DEBUG_STREAM, NGX_LOG_DEBUG_ALL }

\* the number of bytes of a string in UTF-8, counted character by character
RECURSIVE ByteLen(_)
ByteLen(s) ==
    IF s = <<>> THEN 0 ELSE (IF Head(s) = "a" THEN 1 ELSE 2) + ByteLen(Tail(s))

\* the log whose log_level an invocation reads
SinkOf(c) ==
    CASE c.op = "ngx_conf_log_error" -> ConfLog(c.target)
      [] c.op = "ngx_log_debug_http" -> RequestLog(c.target)
      [] OTHER -> c.target

\* C1: check_mask(m, L) is true iff L and the value of m have a bit in common
\* (a flag test); for L = Core | Http it is true for Core and for Http and
\* false for every single-category mask whose bit L lacks.
C1_CheckMaskIsFlagTest ==
    fn = "check_mask" =>
        /\ ret = SharesBit(arg_value, U32From(arg_mask))
        /\ (arg_value = NGX_LOG_DEBUG_CORE + NGX_LOG_DEBUG_HTTP /\ arg_mask \in SingleMask)
              => (ret = (arg_mask \in {"Core", "Http"}))

C1_Witness ==
    /\ fn = "check_mask"
    /\ arg_value = NGX_LOG_DEBUG_CORE + NGX_LOG_DEBUG_HTTP
    /\ arg_mask = "Http"
    /\ ret = TRUE

\* C7: with only the Core bit set in the log level (16), check_mask is true
\* for Core and false for every other single-category mask.
C7_OnlyCoreBit ==
    (fn = "check_mask" /\ arg_value = 16 /\ arg_mask \in SingleMask)
        => (ret = (arg_mask = "Core"))

C7_Witness ==
    /\ fn = "check_mask"
    /\ arg_value = 16
    /\ arg_mask = "Alloc"
    /\ ret = FALSE

\* C3 (as the claim states it): try_from of a value that is none of the
\* eight debug constants fails with that value as the error payload.
C3_ErrCarriesInput ==
    (fn = "try_from" /\ arg_value \notin DebugConstants)
        => (ret.tag = "Err" /\ ret.val = arg_value)

\* C4: into() followed by try_from() gives back the variant, for all eight.
C4_RoundTrip ==
    fn = "try_from(into)" => (ret.tag = "Ok" /\ ret.val = arg_mask)

C4_Witness ==
    /\ fn = "try_from(into)"
    /\ arg_mask = "Http"
    /\ arg_value = NGX_LOG_DEBUG_HTTP
    /\ ret.tag = "Ok"

\* C8: the value of Core is NGX_LOG_DEBUG_FIRST, the value of Stream is
\* NGX_LOG_DEBUG_LAST, and the value of All is not the upper bound.
C8_MaskBounds ==
    fn = "into" =>
        /\ arg_mask = "Core" => ret = NGX_LOG_DEBUG_FIRST
        /\ arg_mask = "Stream" => ret = NGX_LOG_DEBUG_LAST
        /\ arg_mask = "All" => ret # NGX_LOG_DEBUG_LAST

C8_Witness ==
    /\ fn = "into"
    /\ arg_mask = "Stream"
    /\ ret = NGX_LOG_DEBUG_LAST

\* C9: try_from succeeds exactly on the values of the variants, and then
\* with the variant of that value; zero and every union of two categories fail.
C9_TryFromExactOnly ==
    fn = "try_from" =>
        /\ (ret.tag = "Ok") = (\E m \in DebugMask : U32From(m) = arg_value)
        /\ ret.tag = "Ok" => U32From(ret.val) = arg_value
        /\ arg_value = 0 => ret.tag = "Err"
        /\ (\E a \in SingleValues, b \in SingleValues : a # b /\ arg_value = a + b)
              => ret.tag = "Err"

C9_Witness ==
    /\ fn = "try_from"
    /\ arg_value = NGX_LOG_DEBUG_CORE + NGX_LOG_DEBUG_HTTP
    /\ ret.tag = "Err"

\* C2: one ngx_log_error forwards exactly one message to ngx_log_error_core,
\* with the formatted bytes and their byte length, when level < log_level,
\* and nothing when level >= log_level.
C2_ErrorForwardsIffBelow ==
    call.op = "ngx_log_error" =>
        IF call.level < log_level[call.target]
        THEN /\ Len(writes) = 1
             /\ writes[1].prim = "ngx_log_error_core"
             /\ writes[1].level = call.level
             /\ writes[1].target = call.target
             /\ writes[1].data = AsBytes(call.msg)
             /\ writes[1].len = ByteLen(call.msg)
             /\ writes[1].len = Len(writes[1].data)
        ELSE writes = <<>>

C2_Witness ==
    /\ call.op = "ngx_log_error"
    /\ call.level = 1
    /\ log_level[call.target] = 2
    /\ Len(call.msg) = 2
    /\ Len(writes) = 1
    /\ writes[1].len = 3

\* C5: one ngx_log_debug!(mask: m, log, ...) forwards exactly one message to
\* ngx_log_error_core when check_mask(m, L) and nothing otherwise; the level
\* of every forwarded message is NGX_LOG_DEBUG whatever m is.
C5_DebugMaskArm ==
    call.op = "ngx_log_debug(mask:)" =>
        IF check_mask(call.mask, log_level[call.target])
        THEN /\ Len(writes) = 1
             /\ writes[1].prim = "ngx_log_error_core"
             /\ writes[1].level = NGX_LOG_DEBUG
             /\ writes[1].target = call.target
             /\ writes[1].data = AsBytes(call.msg)
        ELSE writes = <<>>

C5_Witness ==
    /\ call.op = "ngx_log_debug(mask:)"
    /\ call.mask = "Http"
    /\ log_level[call.target] = NGX_LOG_DEBUG_HTTP
    /\ Len(writes) = 1
    /\ writes[1].level = NGX_LOG_DEBUG

\* C6: ngx_log_debug!(log, ...) does what ngx_log_debug!(mask: All, log, ...)
\* does: it forwards iff L and the value of All share a bit, and forwards the
\* debug-level message the mask-All call forwards.
C6_DefaultIsAll ==
    [][ call'.op = "ngx_log_debug" =>
          /\ ngx_log_debug_mask_arm("All", call'.target, call'.msg)
          /\ (writes' # <<>>) = SharesBit(log_level[call'.target], NGX_LOG_DEBUG_ALL)
          /\ writes' # <<>> => writes'[1].level = NGX_LOG_DEBUG ]_vars

C6_Witness ==
    /\ call.op = "ngx_log_debug"
    /\ log_level[call.target] = 2048
    /\ Len(writes) = 1
    /\ writes[1].level = NGX_LOG_DEBUG

\* whether an invocation passes its own filter under the levels ll
Admits(c, ll) ==
    CASE c.op \in {"ngx_log_error", "ngx_conf_log_error"} -> c.level < ll[SinkOf(c)]
      [] c.op \in {"ngx_log_debug(mask:)", "ngx_log_debug_mask"} ->
            SharesBit(ll[SinkOf(c)], U32From(c.mask))
      [] c.op = "ngx_log_debug" -> SharesBit(ll[SinkOf(c)], NGX_LOG_DEBUG_ALL)
      [] c.op = "ngx_log_debug_http" -> SharesBit(ll[SinkOf(c)], NGX_LOG_DEBUG_HTTP)

\* C10: every invocation of an entry point leaves every log_level as it was,
\* calls a host write primitive at most once, and emits iff its own level or
\* mask passes the filter of the addressed log's log_level at the call.
C10_CallsAreSelfContained ==
    [][ call'.op # "none" =>
          /\ log_level' = log_level
          /\ Len(writes') <= 1
          /\ (Len(writes') = 1) = Admits(call', log_level) ]_vars

C10_Witness ==
    /\ call.op = "ngx_conf_log_error"
    /\ call.target = "cf_b"
    /\ log_level["log_a"] <= call.level
    /\ call.level < log_level["log_b"]
    /\ Len(writes) = 1

====
